---- MODULE Spec2Model ----
(***************************************************************************)
(* Model of bidwire's City of Boston scraper                               *)
(* (src/bidwire/cityofboston_scraper.py): one scrape() run is the          *)
(* coordinator thread walking through listing fetch, identifier            *)
(* extraction, the dedup query, the thread-pool harvest and the commit,    *)
(* interleaved with the pool's worker threads.                             *)
(*                                                                         *)
(* Python strings are sequences of one-character strings, so that the      *)
(* regular expression match and str.strip() are computed, not assumed.     *)
(***************************************************************************)
EXTENDS Integers, Sequences, FiniteSets, Bags, TLC

\* ------------------------------------------------------------------ bounds
\* Number of scrape() runs of one process that the model follows.
MaxRuns == 2
\* Longest listing page (in anchors) of the extractor specification.
MaxLinks == 3
\* Number of distinct new identifiers of the pool specification.
PoolIds == 6

\* ------------------------------------------------------- program constants
\* NUMBER_OF_THREADS = 5
NUMBER_OF_THREADS == 5

\* ----------------------------------------------------------------- strings
Range(s) == {s[i] : i \in DOMAIN s}

Digits == {"0", "1", "2", "3", "4", "5", "6", "7", "8", "9"}

Whitespace == {" ", "\t", "\n", "\r"}

\* The literal part of compiled_reg_exp, "bids\.asp\?ID=": the escaped
\* characters match themselves only.
RegExpLiteral == <<"b", "i", "d", "s", ".", "a", "s", "p", "?", "I", "D", "=">>

\* str.strip(): drop leading and trailing whitespace.
RECURSIVE lstrip(_)
lstrip(s) ==
    IF s # <<>> /\ Head(s) \in Whitespace THEN lstrip(Tail(s)) ELSE s

RECURSIVE rstrip(_)
rstrip(s) ==
    IF s # <<>> /\ s[Len(s)] \in Whitespace
    THEN rstrip(SubSeq(s, 1, Len(s) - 1))
    ELSE s

strip(s) == rstrip(lstrip(s))

\* "".join(parts): concatenation of a sequence of strings.
RECURSIVE join(_)
join(parts) ==
    IF parts = <<>> THEN <<>> ELSE Head(parts) \o join(Tail(parts))

\* Iterating a string yields its characters, each a string of length one.
chars(s) == [i \in 1..Len(s) |-> <<s[i]>>]

\* The greedy group (\d+): the longest run of digits of s starting at i.
RECURSIVE DigitRun(_, _)
DigitRun(s, i) ==
    IF i <= Len(s) /\ s[i] \in Digits
    THEN <<s[i]>> \o DigitRun(s, i + 1)
    ELSE <<>>

\* compiled_reg_exp.match(href): anchored at the start of href, not at its
\* end. matched = FALSE is Python's None.
compiled_reg_exp_match(href) ==
    LET n == Len(RegExpLiteral)
        group1 == DigitRun(href, n + 1)
    IN  IF /\ Len(href) > n
           /\ SubSeq(href, 1, n) = RegExpLiteral
           /\ group1 # <<>>
        THEN [matched |-> TRUE, group1 |-> group1]
        ELSE [matched |-> FALSE, group1 |-> <<>>]

\* ------------------------------------------------------ identifier extractor
\* get_bid_id(href): the ID of the href link, or None (matched = FALSE).
get_bid_id(href) ==
    LET regexp_match == compiled_reg_exp_match(href)
    IN  IF regexp_match.matched
        THEN [matched |-> TRUE, group1 |-> regexp_match.group1]
        ELSE [matched |-> FALSE, group1 |-> <<>>]

\* tree.xpath('//b/a/@href'): a listing page is its sequence of anchors in
\* document order, each with the tag of its parent element and its href.
xpath_b_a_href(page_str) ==
    LET bold == SelectSeq(page_str, LAMBDA a : a.parent = "b")
    IN  [i \in 1..Len(bold) |-> bold[i].href]

\* Mutant of the loop: break instead of continue at a link that does not
\* match.
RECURSIVE scrape_results_loop_break(_, _)
scrape_results_loop_break(bid_id_urls, bid_ids) ==
    IF bid_id_urls = <<>>
    THEN bid_ids
    ELSE LET bid_id == get_bid_id(Head(bid_id_urls))
         IN  IF ~bid_id.matched
             THEN bid_ids
             ELSE scrape_results_loop_break(
                      Tail(bid_id_urls),
                      Append(bid_ids, strip(join(chars(bid_id.group1)))))

\* The for loop of scrape_results_page over bid_id_urls.
RECURSIVE scrape_results_loop(_, _)
scrape_results_loop(bid_id_urls, bid_ids) ==
    IF bid_id_urls = <<>>
    THEN bid_ids
    ELSE LET bid_id == get_bid_id(Head(bid_id_urls))
         IN  IF ~bid_id.matched
             THEN scrape_results_loop(Tail(bid_id_urls), bid_ids)
             ELSE scrape_results_loop(
                      Tail(bid_id_urls),
                      Append(bid_ids, strip(join(chars(bid_id.group1)))))

scrape_results_page(page_str) ==
    scrape_results_loop(xpath_b_a_href(page_str), <<>>)

\* ------------------------------------------------------------ detail parser
\* get_site(): Bid.Site.CITYOFBOSTON, an enum member with a name.
get_site == [name |-> "CITYOFBOSTON"]

\* Bid(identifier=..., description=..., items=..., site=...)
Bid(identifier, description, items, site) ==
    [identifier |-> identifier, description |-> description,
     items |-> items, site |-> site]

Return(value) == [raised |-> FALSE, exc |-> "", value |-> <<value>>]

Raise(exc) == [raised |-> TRUE, exc |-> exc, value |-> <<>>]

\* Mutant of scrape_bid_page: identifier and description interchanged.
scrape_bid_page_swapped(page, bid_id) ==
    LET centers == page.content
    IN  IF centers = <<>> \/ centers[1].b = <<>>
        THEN Raise("IndexError")
        ELSE IF centers[1].b[1].text = <<>>
        THEN Raise("AttributeError")
        ELSE Return(Bid(strip(centers[1].b[1].text[1]), bid_id,
                        <<join(centers[1].text)>>, get_site.name))

\* scrape_bid_page(page, bid_id). A detail page is the sequence of its
\* <center> elements; each has its <b> children (b) and its own text nodes
\* (text). An element's .text is <<s>> or, for Python's None, <<>>.
\* [0] on an empty xpath result raises IndexError; None.strip() raises
\* AttributeError.
scrape_bid_page(page, bid_id) ==
    LET centers == page.content
    IN  IF centers = <<>>
        THEN Raise("IndexError")
        ELSE LET first_center == centers[1]
                 bs == first_center.b
             IN  IF bs = <<>>
                 THEN Raise("IndexError")
                 ELSE LET start_text_element == bs[1]
                      IN  IF start_text_element.text = <<>>
                          THEN Raise("AttributeError")
                          ELSE LET description ==
                                       strip(start_text_element.text[1])
                                   items == <<join(first_center.text)>>
                               IN  Return(Bid(bid_id, description, items,
                                              get_site.name))

\* ---------------------------------------------------------------- fixtures
Str_101 == <<"1", "0", "1">>
Str_202 == <<"2", "0", "2">>
Str_303 == <<"3", "0", "3">>

Href_101 == RegExpLiteral \o Str_101
Href_202 == RegExpLiteral \o Str_202
Href_303 == RegExpLiteral \o Str_303
\* home.asp: a link that is no bid link.
Href_home == <<"h", "o", "m", "e", ".", "a", "s", "p">>
\* bids.asp?ID=7&x : text after the digits.
Href_tail == RegExpLiteral \o <<"7", "&", "x">>
\* /bids.asp?ID=5 : the literal is not at the start of the href.
Href_abs == <<"/">> \o RegExpLiteral \o <<"5">>
\* bids.asp?ID= : no digit after the literal.
Href_nodigit == RegExpLiteral

Anchor(parent, href) == [parent |-> parent, href |-> href]

A(href) == Anchor("b", href)

\* Listing pages of the pipeline specification.
Listings ==
    { <<>>,
      <<A(Href_home)>>,
      <<A(Href_101), A(Href_202), A(Href_home)>>,
      <<A(Href_101), Anchor("td", Href_303), A(Href_101)>>,
      <<A(Href_101), A(Href_202), A(Href_303)>> }

\* Iteration orders over the identifiers of the listings.
HashSeeds == {<<Str_101, Str_202, Str_303>>, <<Str_303, Str_202, Str_101>>}

\* What the store already knows when the process starts.
KnownAtStart == { {}, {Str_101}, {Str_101, Str_202} }

\* <center><b> Snow </b> Contract</center>
Text_b == <<" ", "S", "n", "o", "w", " ">>
Text_tail == <<" ", "C", "o", "n", "t", "r", "a", "c", "t">>

Response(content) == [content |-> content]

Page_ok == Response(<< [b |-> << [text |-> <<Text_b>>] >>, text |-> <<Text_tail>>] >>)
\* no <center> element at all
Page_nocenter == Response(<<>>)
\* a <center> without a <b> child
Page_nobold == Response(<< [b |-> <<>>, text |-> <<Text_tail>>] >>)
\* a <b> whose .text is None (it starts with a child element)
Page_notext == Response(<< [b |-> << [text |-> <<>>] >>, text |-> <<Text_tail>>] >>)

DetailPages == {Page_ok, Page_nocenter, Page_nobold, Page_notext}

\* What scraper.get(details_url, params={'ID': bid_id}) can do: return a
\* response or raise (scrapelib raises on transport errors and on HTTP
\* error statuses).
FetchOutcomes ==
    {[raised |-> FALSE, page |-> <<p>>] : p \in DetailPages}
        \cup {[raised |-> TRUE, page |-> <<>>]}

\* ------------------------------------------------------------------- state
VARIABLES
    listing,    \* the portal's listing page (anchors in document order)
    detail,     \* per identifier, what the detail endpoint can answer
    hashSeed,   \* the process's iteration order over a set of identifiers
    known,      \* the store: committed (site, identifier) pairs
    run,        \* number of the current scrape() run
    last_run,   \* <<summary>> of the run before the current one, or <<>>
    known0,     \* the store as it was when the current run started
    pc,         \* the coordinator thread's position in scrape()
    failure,    \* the stage whose exception ended the run, or "none"
    page,       \* <<response>> of the listing fetch, <<>> before it
    bid_ids,    \* scrape(): bid_ids
    new_ids,    \* scrape(): new_ids
    queries,    \* get_new_identifiers calls of this run
    todo,       \* process_new_bids: items map() has not yet submitted
    futures,    \* process_new_bids: futures, in submission order
    nthreads,   \* worker threads the executor has spawned
    yielded,    \* indices of futures as_completed has yielded
    exc,        \* exception propagating out of the with block, or "none"
    session,    \* the session's pending objects: a bag of the bids added
    errors,     \* log.error calls of this run
    commits,    \* session.commit calls of this run
    calls       \* which thread has called what in this run

vars ==
    <<listing, detail, hashSeed, known, run, last_run, known0, pc, failure, page,
      bid_ids, new_ids, queries, todo, futures, nthreads, yielded, exc,
      session, errors, commits, calls>>

env == <<listing, detail, hashSeed>>

\* A call of fn made on a thread: the coordinator, which runs scrape(), or
\* a worker thread of the pool.
Call(thread, fn) == [thread |-> thread, fn |-> fn]

\* Iterating a set of identifiers: the order the process's hash seed gives.
IterOrder(S) == SelectSeq(hashSeed, LAMBDA x : x \in S)

\* The store's rows for a set of identifiers of this site.
Rows(ids) == {<<get_site.name, i>> : i \in ids}

\* get_new_identifiers(session, identifiers, site): the identifiers, as a
\* set, that the store does not hold for the site.
get_new_identifiers(store, identifiers, site) ==
    {i \in Range(identifiers) : <<site.name, i>> \notin store}

\* Future states of concurrent.futures.
Future(bid_id) ==
    [bid_id |-> bid_id, state |-> "PENDING", raised |-> FALSE, result |-> <<>>]

Running == {i \in DOMAIN futures : futures[i].state = "RUNNING"}

Pending == {i \in DOMAIN futures : futures[i].state = "PENDING"}

Finished == {i \in DOMAIN futures : futures[i].state = "FINISHED"}

\* The state of a run that has not started: the locals of scrape().
RunStart ==
    /\ pc = "get_results"
    /\ failure = "none"
    /\ page = <<>>
    /\ bid_ids = <<>>
    /\ new_ids = {}
    /\ queries = 0
    /\ todo = <<>>
    /\ futures = <<>>
    /\ nthreads = 0
    /\ yielded = {}
    /\ exc = "none"
    /\ session = EmptyBag
    /\ errors = 0
    /\ commits = 0
    /\ calls = {}

Init ==
    /\ listing \in Listings
    /\ detail = [i \in {Str_101, Str_202, Str_303} |-> FetchOutcomes]
    /\ hashSeed \in HashSeeds
    /\ known \in {Rows(k) : k \in KnownAtStart}
    /\ known0 = known
    /\ run = 1
    /\ last_run = <<>>
    /\ RunStart

\* ----------------------------------------------------------------- scrape()
\* page = scraper.get(self.results_url): returns the page or raises.
FetchListing ==
    /\ pc = "get_results"
    /\ \/ /\ page' = <<Response(listing)>>
          /\ pc' = "scrape_results_page"
          /\ UNCHANGED failure
       \/ /\ pc' = "failed"
          /\ failure' = "listing"
          /\ UNCHANGED page
    /\ UNCHANGED <<calls, env, known, run, last_run, known0, bid_ids, new_ids, queries,
                   todo, futures, nthreads, yielded, exc, session, errors,
                   commits>>

\* bid_ids = self.scrape_results_page(page.content)
ExtractIds ==
    /\ pc = "scrape_results_page"
    /\ bid_ids' = scrape_results_page(page[1].content)
    /\ pc' = "get_new_identifiers"
    /\ UNCHANGED <<calls, env, known, run, last_run, known0, failure, page, new_ids,
                   queries, todo, futures, nthreads, yielded, exc, session,
                   errors, commits>>

\* Mutant of the dedup step: when the query raises, the run goes on with
\* every candidate taken as new.
Dedup_fallback ==
    /\ pc = "get_new_identifiers"
    /\ queries' = queries + 1
    /\ calls' = calls \cup {Call("coordinator", "get_new_identifiers")}
    /\ \/ /\ new_ids' = get_new_identifiers(known, bid_ids, get_site)
          /\ UNCHANGED failure
       \/ /\ new_ids' = Range(bid_ids)
          /\ failure' = "dedup"
    /\ pc' = "process_new_bids"
    /\ UNCHANGED <<env, known, run, last_run, known0, page, bid_ids, todo,
                   futures, nthreads, yielded, exc, session, errors, commits>>

\* new_ids = get_new_identifiers(session, bid_ids, self.get_site()): one
\* query of the store, which answers or raises.
Dedup ==
    /\ pc = "get_new_identifiers"
    /\ queries' = queries + 1
    /\ calls' = calls \cup {Call("coordinator", "get_new_identifiers")}
    /\ \/ /\ new_ids' = get_new_identifiers(known, bid_ids, get_site)
          /\ pc' = "process_new_bids"
          /\ UNCHANGED failure
       \/ /\ pc' = "failed"
          /\ failure' = "dedup"
          /\ UNCHANGED new_ids
    /\ UNCHANGED <<env, known, run, last_run, known0, page, bid_ids, todo,
                   futures, nthreads, yielded, exc, session, errors, commits>>

\* Mutant of the pool's entry: the tasks are made from bid_ids, the
\* candidates, instead of new_ids.
EnterPool_candidates ==
    /\ pc = "process_new_bids"
    /\ todo' = bid_ids
    /\ nthreads' = 0
    /\ pc' = "submit"
    /\ UNCHANGED <<calls, env, known, run, last_run, known0, failure, page, bid_ids,
                   new_ids, queries, futures, yielded, exc, session, errors,
                   commits>>

\* Mutant of the pool's entry: max_workers=len(new_ids), which the
\* executor rejects with ValueError when new_ids is empty.
EnterPool_sized ==
    /\ pc = "process_new_bids"
    /\ IF new_ids = {}
       THEN /\ pc' = "failed"
            /\ failure' = "harvest"
            /\ exc' = "ValueError"
            /\ UNCHANGED <<todo, nthreads>>
       ELSE /\ todo' = IterOrder(new_ids)
            /\ nthreads' = 0
            /\ pc' = "submit"
            /\ UNCHANGED <<failure, exc>>
    /\ UNCHANGED <<calls, env, known, run, last_run, known0, page, bid_ids,
                   new_ids, queries, futures, yielded, session, errors,
                   commits>>

\* with ThreadPoolExecutor(max_workers=NUMBER_OF_THREADS) as executor:
\* and the start of map() over new_ids.
EnterPool ==
    /\ pc = "process_new_bids"
    /\ todo' = IterOrder(new_ids)
    /\ nthreads' = 0
    /\ pc' = "submit"
    /\ UNCHANGED <<calls, env, known, run, last_run, known0, failure, page, bid_ids,
                   new_ids, queries, futures, yielded, exc, session, errors,
                   commits>>

\* Mutant of submit: a worker thread is spawned for every task.
Submit_unbounded ==
    /\ pc = "submit"
    /\ todo # <<>>
    /\ futures' = Append(futures, Future(Head(todo)))
    /\ todo' = Tail(todo)
    /\ nthreads' = nthreads + 1
    /\ UNCHANGED <<calls, env, known, run, last_run, known0, pc, failure, page, bid_ids,
                   new_ids, queries, yielded, exc, session, errors, commits>>

\* executor.submit(self.get_details_for_bid, scraper, bid_id): queue the
\* task; the executor spawns a worker thread while it has fewer than
\* max_workers.
Submit ==
    /\ pc = "submit"
    /\ todo # <<>>
    /\ futures' = Append(futures, Future(Head(todo)))
    /\ todo' = Tail(todo)
    /\ nthreads' = IF nthreads < NUMBER_OF_THREADS
                   THEN nthreads + 1
                   ELSE nthreads
    /\ UNCHANGED <<calls, env, known, run, last_run, known0, pc, failure, page, bid_ids,
                   new_ids, queries, yielded, exc, session, errors, commits>>

\* list(map(...)) is complete: every task is submitted.
SubmitDone ==
    /\ pc = "submit"
    /\ todo = <<>>
    /\ pc' = "as_completed"
    /\ UNCHANGED <<calls, env, known, run, last_run, known0, failure, page, bid_ids,
                   new_ids, queries, todo, futures, nthreads, yielded, exc,
                   session, errors, commits>>

\* Mutant of the pool: a worker thread ends after its first task instead
\* of going back to the queue.
WorkerStart_one_task_per_thread ==
    /\ Pending # {}
    /\ Cardinality(Running) + Cardinality(Finished) < nthreads
    /\ LET i == CHOOSE k \in Pending : \A m \in Pending : k <= m
       IN  futures' = [futures EXCEPT ![i].state = "RUNNING"]
    /\ calls' = calls \cup {Call("worker", "get_details_for_bid")}
    /\ UNCHANGED <<env, known, run, last_run, known0, pc, failure, page, bid_ids,
                   new_ids, queries, todo, nthreads, yielded, exc, session,
                   errors, commits>>

\* A worker thread that is idle takes the oldest queued task and starts
\* get_details_for_bid: scraper.get(self.details_url, params={'ID': bid_id}).
WorkerStart ==
    /\ Pending # {}
    /\ Cardinality(Running) < nthreads
    /\ LET i == CHOOSE k \in Pending : \A m \in Pending : k <= m
       IN  futures' = [futures EXCEPT ![i].state = "RUNNING"]
    /\ calls' = calls \cup {Call("worker", "get_details_for_bid")}
    /\ UNCHANGED <<env, known, run, last_run, known0, pc, failure, page, bid_ids,
                   new_ids, queries, todo, nthreads, yielded, exc, session,
                   errors, commits>>

\* Mutant of the task: get_details_for_bid also parses the page it fetched.
WorkerFinish_parses ==
    /\ \E i \in Running :
        \E o \in detail[futures[i].bid_id] :
            /\ futures' =
                [futures EXCEPT
                    ![i] = [bid_id |-> @.bid_id,
                            state |-> "FINISHED",
                            raised |-> o.raised,
                            result |-> IF o.raised
                                       THEN <<>>
                                       ELSE <<[page |-> o.page[1],
                                               bid_id |-> @.bid_id]>>]]
            /\ calls' = IF o.raised
                        THEN calls
                        ELSE calls \cup {Call("worker", "scrape_bid_page")}
    /\ UNCHANGED <<env, known, run, last_run, known0, pc, failure, page, bid_ids,
                   new_ids, queries, todo, nthreads, yielded, exc, session,
                   errors, commits>>

\* Mutant of the task: get_details_for_bid parses the page it fetched and
\* adds the bid to the session itself.
WorkerFinish_adds ==
    /\ \E i \in Running :
        \E o \in detail[futures[i].bid_id] :
            LET bid == IF o.raised
                       THEN Raise("TransportError")
                       ELSE scrape_bid_page(o.page[1], futures[i].bid_id)
            IN  /\ futures' =
                    [futures EXCEPT
                        ![i] = [bid_id |-> @.bid_id,
                                state |-> "FINISHED",
                                raised |-> bid.raised,
                                result |-> IF bid.raised
                                           THEN <<>>
                                           ELSE <<[page |-> o.page[1],
                                                   bid_id |-> @.bid_id]>>]]
                /\ IF bid.raised
                   THEN UNCHANGED <<session, calls>>
                   ELSE /\ session' = session (+) SetToBag({bid.value[1]})
                        /\ calls' = calls \cup {Call("worker", "session.add")}
    /\ UNCHANGED <<env, known, run, last_run, known0, pc, failure, page, bid_ids,
                   new_ids, queries, todo, nthreads, yielded, exc, errors,
                   commits>>

\* The request of a running task ends: get_details_for_bid returns
\* (response, bid_id) or raises, and the future is finished.
WorkerFinish ==
    /\ \E i \in Running :
        \E o \in detail[futures[i].bid_id] :
            futures' =
                [futures EXCEPT
                    ![i] = [bid_id |-> @.bid_id,
                            state |-> "FINISHED",
                            raised |-> o.raised,
                            result |-> IF o.raised
                                       THEN <<>>
                                       ELSE <<[page |-> o.page[1],
                                               bid_id |-> @.bid_id]>>]]
    /\ UNCHANGED <<calls, env, known, run, last_run, known0, pc, failure, page, bid_ids,
                   new_ids, queries, todo, nthreads, yielded, exc, session,
                   errors, commits>>

\* The else branch of the loop body: parse the page and add the bid.
CollectParsed(i) ==
    LET bid_page == futures[i].result[1].page
        bid_id == futures[i].result[1].bid_id
        bid == scrape_bid_page(bid_page, bid_id)
    IN  IF bid.raised
        THEN /\ exc' = bid.exc
             /\ pc' = "exit"
             /\ calls' = calls \cup {Call("coordinator", "scrape_bid_page")}
             /\ UNCHANGED <<session, errors>>
        ELSE /\ session' = session (+) SetToBag({bid.value[1]})
             /\ calls' = calls \cup {Call("coordinator", "scrape_bid_page"),
                                      Call("coordinator", "session.add")}
             /\ UNCHANGED <<pc, exc, errors>>

\* Mutant of the loop body: no try/except around future.result().
Collect_uncaught ==
    /\ pc = "as_completed"
    /\ \E i \in Finished \ yielded :
        /\ yielded' = yielded \cup {i}
        /\ IF futures[i].raised
           THEN /\ exc' = "TransportError"
                /\ pc' = "exit"
                /\ UNCHANGED <<session, errors, calls>>
           ELSE CollectParsed(i)
    /\ UNCHANGED <<env, known, run, last_run, known0, failure, page, bid_ids,
                   new_ids, queries, todo, futures, nthreads, commits>>

\* Mutant of the loop body: session.add(bid) is missing.
Collect_no_add ==
    /\ pc = "as_completed"
    /\ \E i \in Finished \ yielded :
        /\ yielded' = yielded \cup {i}
        /\ IF futures[i].raised
           THEN /\ errors' = errors + 1
                /\ UNCHANGED <<pc, exc, session, calls>>
           ELSE LET bid == scrape_bid_page(futures[i].result[1].page,
                                           futures[i].result[1].bid_id)
                IN  IF bid.raised
                    THEN /\ exc' = bid.exc
                         /\ pc' = "exit"
                         /\ UNCHANGED <<session, errors, calls>>
                    ELSE UNCHANGED <<pc, exc, errors, session, calls>>
    /\ UNCHANGED <<env, known, run, last_run, known0, failure, page, bid_ids,
                   new_ids, queries, todo, futures, nthreads, commits>>

\* Mutant of the loop body: session.commit() after every session.add(bid).
Collect_commit_each ==
    /\ pc = "as_completed"
    /\ \E i \in Finished \ yielded :
        /\ yielded' = yielded \cup {i}
        /\ IF futures[i].raised
           THEN /\ errors' = errors + 1
                /\ UNCHANGED <<pc, exc, session, commits, known, calls>>
           ELSE LET bid == scrape_bid_page(futures[i].result[1].page,
                                           futures[i].result[1].bid_id)
                IN  IF bid.raised
                    THEN /\ exc' = bid.exc
                         /\ pc' = "exit"
                         /\ UNCHANGED <<session, errors, commits, known, calls>>
                    ELSE /\ session' = session (+) SetToBag({bid.value[1]})
                         /\ commits' = commits + 1
                         /\ known' = known \cup
                                {<<bid.value[1].site, bid.value[1].identifier>>}
                         /\ UNCHANGED <<pc, exc, errors, calls>>
    /\ UNCHANGED <<env, run, last_run, known0, failure, page, bid_ids,
                   new_ids, queries, todo, futures, nthreads>>

\* Mutant of the loop body: a task whose fetch raised is submitted again,
\* once.
Collect_retry ==
    /\ pc = "as_completed"
    /\ \E i \in Finished \ yielded :
        /\ yielded' = yielded \cup {i}
        /\ IF futures[i].raised
           THEN /\ errors' = errors + 1
                /\ futures' =
                    IF \E j \in DOMAIN futures :
                           j # i /\ futures[j].bid_id = futures[i].bid_id
                    THEN futures
                    ELSE Append(futures, Future(futures[i].bid_id))
                /\ UNCHANGED <<pc, exc, session, calls>>
           ELSE CollectParsed(i) /\ UNCHANGED futures
    /\ UNCHANGED <<env, known, run, last_run, known0, failure, page, bid_ids,
                   new_ids, queries, todo, nthreads, commits>>

\* Mutant of the loop body: the except branch logs and leaves the loop
\* (break), so what was collected before the failure is what is committed.
Collect_stop_on_error ==
    /\ pc = "as_completed"
    /\ \E i \in Finished \ yielded :
        /\ yielded' = yielded \cup {i}
        /\ IF futures[i].raised
           THEN /\ errors' = errors + 1
                /\ pc' = "exit"
                /\ UNCHANGED <<exc, session, calls>>
           ELSE CollectParsed(i)
    /\ UNCHANGED <<env, known, run, last_run, known0, failure, page, bid_ids,
                   new_ids, queries, todo, futures, nthreads, commits>>

\* Mutant of the loop body: the except branch adds a bid without details
\* for the identifier whose fetch raised.
Collect_add_on_error ==
    /\ pc = "as_completed"
    /\ \E i \in Finished \ yielded :
        /\ yielded' = yielded \cup {i}
        /\ IF futures[i].raised
           THEN /\ errors' = errors + 1
                /\ session' = session (+)
                      SetToBag({Bid(futures[i].bid_id, <<>>, <<>>, get_site.name)})
                /\ UNCHANGED <<pc, exc, calls>>
           ELSE CollectParsed(i)
    /\ UNCHANGED <<env, known, run, last_run, known0, failure, page, bid_ids,
                   new_ids, queries, todo, futures, nthreads, commits>>

\* One turn of "for future in as_completed(futures)": a finished future
\* not yet yielded is yielded. future.result() raising is caught and
\* logged; otherwise the else branch parses the page and adds the bid, and
\* an exception of scrape_bid_page leaves the loop.
Collect ==
    /\ pc = "as_completed"
    /\ \E i \in Finished \ yielded :
        /\ yielded' = yielded \cup {i}
        /\ IF futures[i].raised
           THEN /\ errors' = errors + 1
                /\ UNCHANGED <<pc, exc, session, calls>>
           ELSE CollectParsed(i)
    /\ UNCHANGED <<env, known, run, last_run, known0, failure, page, bid_ids,
                   new_ids, queries, todo, futures, nthreads, commits>>

\* Mutant of the loop: it is left after the first future (a break at the
\* end of the loop body).
CollectDone_early ==
    /\ pc = "as_completed"
    /\ yielded # {} \/ futures = <<>>
    /\ pc' = "exit"
    /\ UNCHANGED <<calls, env, known, run, last_run, known0, failure, page,
                   bid_ids, new_ids, queries, todo, futures, nthreads,
                   yielded, exc, session, errors, commits>>

\* as_completed is exhausted: every future was yielded.
CollectDone ==
    /\ pc = "as_completed"
    /\ yielded = DOMAIN futures
    /\ pc' = "exit"
    /\ UNCHANGED <<calls, env, known, run, last_run, known0, failure, page, bid_ids,
                   new_ids, queries, todo, futures, nthreads, yielded, exc,
                   session, errors, commits>>

\* Mutant of the with block's exit: executor.shutdown(wait=False), the
\* method returns without joining the workers.
ExitPool_nowait ==
    /\ pc = "exit"
    /\ IF exc = "none"
       THEN pc' = "commit" /\ UNCHANGED failure
       ELSE pc' = "failed" /\ failure' = "harvest"
    /\ UNCHANGED <<calls, env, known, run, last_run, known0, page, bid_ids, new_ids,
                   queries, todo, futures, nthreads, yielded, exc, session,
                   errors, commits>>

\* The with block's exit, executor.shutdown(wait=True): the workers run
\* what is still queued and are joined; then process_new_bids returns, or
\* the exception goes on to scrape() and its caller.
ExitPool ==
    /\ pc = "exit"
    /\ Finished = DOMAIN futures
    /\ IF exc = "none"
       THEN pc' = "commit" /\ UNCHANGED failure
       ELSE pc' = "failed" /\ failure' = "harvest"
    /\ UNCHANGED <<calls, env, known, run, last_run, known0, page, bid_ids, new_ids,
                   queries, todo, futures, nthreads, yielded, exc, session,
                   errors, commits>>

\* session.commit(): the added bids become rows of the store in one
\* transaction, or the commit raises and the store keeps its rows.
Commit ==
    /\ pc = "commit"
    /\ commits' = commits + 1
    /\ calls' = calls \cup {Call("coordinator", "session.commit")}
    /\ \/ /\ known' = known \cup {<<b.site, b.identifier>> : b \in BagToSet(session)}
          /\ pc' = "committed"
          /\ UNCHANGED failure
       \/ /\ pc' = "failed"
          /\ failure' = "commit"
          /\ UNCHANGED known
    /\ UNCHANGED <<env, run, last_run, known0, page, bid_ids, new_ids, queries,
                   todo, futures, nthreads, yielded, exc, session, errors>>

\* The process calls scrape() again: a new scraper, a new session.
Summary ==
    [pc |-> pc, failure |-> failure, new_ids |-> new_ids, errors |-> errors,
     added |-> {b.identifier : b \in BagToSet(session)}]

StartRun ==
    /\ pc \in {"committed", "failed"}
    /\ run < MaxRuns
    /\ run' = run + 1
    /\ last_run' = <<Summary>>
    /\ known0' = known
    /\ pc' = "get_results"
    /\ failure' = "none"
    /\ page' = <<>>
    /\ bid_ids' = <<>>
    /\ new_ids' = {}
    /\ queries' = 0
    /\ todo' = <<>>
    /\ futures' = <<>>
    /\ nthreads' = 0
    /\ yielded' = {}
    /\ exc' = "none"
    /\ session' = EmptyBag
    /\ errors' = 0
    /\ commits' = 0
    /\ calls' = {}
    /\ UNCHANGED <<env, known>>

Next ==
    \/ FetchListing
    \/ ExtractIds
    \/ Dedup
    \/ EnterPool
    \/ Submit
    \/ SubmitDone
    \/ WorkerStart
    \/ WorkerFinish
    \/ Collect
    \/ CollectDone
    \/ ExitPool
    \/ Commit
    \/ StartRun

Spec == Init /\ [][Next]_vars

\* ------------------------------------------- the extractor on its own
\* Anchors of the listing pages the extractor is run on.
ExtractAnchors ==
    { A(Href_101), A(Href_202), A(Href_home), A(Href_tail), A(Href_abs),
      A(Href_nodigit), Anchor("td", Href_303) }

SeqsUpTo(S, n) == UNION {[1..k -> S] : k \in 0..n}

InitExtract ==
    /\ listing \in SeqsUpTo(ExtractAnchors, MaxLinks)
    /\ detail = <<>>
    /\ hashSeed = <<>>
    /\ known = {}
    /\ known0 = known
    /\ run = 1
    /\ last_run = <<>>
    /\ RunStart

NextExtract ==
    \/ FetchListing
    \/ ExtractIds

SpecExtract == InitExtract /\ [][NextExtract]_vars

\* ------------------------------------- the pool with more tasks than workers
PoolDigits == <<"1", "2", "3", "4", "5", "6", "7", "8", "9">>

PoolId(i) == <<PoolDigits[i]>>

\* A listing of PoolIds distinct bids, none of them known; the first bid's
\* detail fetch may raise.
InitPool ==
    /\ listing = [i \in 1..PoolIds |-> A(RegExpLiteral \o PoolId(i))]
    /\ detail =
        [id \in {PoolId(i) : i \in 1..PoolIds} |->
            IF id = PoolId(1)
            THEN {[raised |-> TRUE, page |-> <<>>],
                  [raised |-> FALSE, page |-> <<Page_ok>>]}
            ELSE {[raised |-> FALSE, page |-> <<Page_ok>>]}]
    /\ hashSeed = [i \in 1..PoolIds |-> PoolId(i)]
    /\ known = {}
    /\ known0 = known
    /\ run = 1
    /\ last_run = <<>>
    /\ RunStart

SpecPool == InitPool /\ [][Next]_vars

\* ------------------------------------------------ runs under fair scheduling
\* The steps of the thread that runs scrape().
Coordinator ==
    \/ FetchListing
    \/ ExtractIds
    \/ Dedup
    \/ EnterPool
    \/ Submit
    \/ SubmitDone
    \/ Collect
    \/ CollectDone
    \/ ExitPool
    \/ Commit

\* The thread of scrape() keeps running while it has a step to take, an idle
\* worker takes a queued task, and a fetch in flight returns or raises.
\* Whether scrape() is called again is up to the caller.
Fairness ==
    /\ WF_vars(Coordinator)
    /\ WF_vars(WorkerStart)
    /\ WF_vars(WorkerFinish)

\* Runs with more tasks than workers, and runs on a listing of two bids
\* whose detail pages may fail to fetch or to parse.
InitLive ==
    \/ InitPool
    \/ /\ Init
       /\ listing = <<A(Href_101), A(Href_202), A(Href_home)>>
       /\ hashSeed = <<Str_101, Str_202, Str_303>>

SpecLive == InitLive /\ [][Next]_vars /\ Fairness

\* ================================================================== claims
\* Indices of the futures whose detail fetch raised.
FetchFailed == {i \in Finished : futures[i].raised}

\* Indices of the yielded futures whose page scrape_bid_page rejects.
ParseFailed ==
    {i \in yielded :
        /\ ~futures[i].raised
        /\ scrape_bid_page(futures[i].result[1].page,
                           futures[i].result[1].bid_id).raised}

BidIdsOf(bag) == {b.identifier : b \in BagToSet(bag)}

FutureIds(I) == {futures[i].bid_id : i \in I}

\* C1: a detail fetch that raises is isolated. No exception leaves the
\* harvest unless a page failed to parse; and when process_new_bids has
\* returned (the run is at or past session.commit()), one error was logged
\* per identifier whose fetch raised and the session holds exactly one bid
\* for each of the other new identifiers.
C1_FetchFailureIsolated ==
    /\ (exc # "none" \/ failure = "harvest") => ParseFailed # {}
    /\ (pc \in {"commit", "committed"} \/ failure = "commit") =>
        /\ Finished = DOMAIN futures
        /\ errors = Cardinality(FetchFailed)
        /\ BidIdsOf(session) = new_ids \ FutureIds(FetchFailed)
        /\ BagCardinality(session) = Cardinality(new_ids) - errors

\* Three new identifiers, one failing fetch: two bids, one logged error,
\* and the run is at session.commit().
C1_Witness ==
    /\ pc = "commit"
    /\ Cardinality(new_ids) = 3
    /\ Cardinality(FetchFailed) = 1
    /\ errors = 1
    /\ BagCardinality(session) = 2

\* C2: a parse failure is isolated like a fetch failure: no exception of
\* scrape_bid_page leaves process_new_bids, so no run ends failed in the
\* harvest.
C2_ParseFailureIsolated ==
    exc = "none" /\ failure # "harvest"

\* C3: every bid added to the session carries an identifier of new_ids, the
\* answer of this run's dedup query, and no two bids added in one run carry
\* the same identifier.
C3_OneBidPerNewIdentifier ==
    /\ \A b \in BagToSet(session) :
        /\ b.identifier \in new_ids
        /\ CopiesIn(b, session) = 1
    /\ \A b1, b2 \in BagToSet(session) :
        b1.identifier = b2.identifier => b1 = b2

\* Two bids are in the session while a third task is not yet collected.
C3_Witness ==
    /\ BagCardinality(session) = 2
    /\ Cardinality(new_ids) = 3
    /\ pc = "as_completed"

\* C4: at every instant at most NUMBER_OF_THREADS detail fetches have
\* started and not finished, however many tasks were submitted; the other
\* submitted tasks are queued (PENDING), finished or not yet submitted.
C4_AtMostFiveInFlight ==
    /\ Cardinality(Running) <= NUMBER_OF_THREADS
    /\ Cardinality(Running) + Cardinality(Pending) + Cardinality(Finished)
           + Len(todo) = (IF pc = "submit" \/ futures # <<>>
                          THEN Cardinality(new_ids) ELSE 0)

\* More tasks than workers: five fetches in flight and a sixth task queued.
C4_Witness ==
    /\ Cardinality(Running) = NUMBER_OF_THREADS
    /\ Pending # {}
    /\ Cardinality(new_ids) > NUMBER_OF_THREADS

\* C5: the dedup query happens before every detail fetch. A task exists,
\* and so a fetch has started, only after get_new_identifiers has returned
\* in this run, and only for an identifier the query reported as new: one
\* the store did not hold when it was queried.
C5_DedupBeforeFetch ==
    \A i \in DOMAIN futures :
        /\ queries = 1
        /\ pc \notin {"get_results", "scrape_results_page",
                      "get_new_identifiers"}
        /\ failure # "dedup"
        /\ futures[i].bid_id \in new_ids
        /\ <<get_site.name, futures[i].bid_id>> \notin known0

\* 101 is known among the candidates 101 and 202; the fetch for 202 runs.
C5_Witness ==
    /\ <<get_site.name, Str_101>> \in known0
    /\ Str_101 \in Range(bid_ids)
    /\ \E i \in Running : futures[i].bid_id = Str_202

\* C6: a run issues the dedup query at most once and commits at most once;
\* a run that completed issued exactly one query and exactly one commit.
C6_OneQueryOneCommit ==
    /\ queries <= 1
    /\ commits <= 1
    /\ pc = "committed" => (queries = 1 /\ commits = 1)

\* A run that added bids is committed.
C6_Witness ==
    /\ pc = "committed"
    /\ BagCardinality(session) >= 2

\* C7: a run that fails persists nothing. If the listing fetch or the
\* dedup query raised, the run has ended with that failure and has made no
\* task, no session.add and no commit; if the commit raised, the run has
\* ended with that failure; and the store of a failed run is the store the
\* run started with.
C7_FailedRunPersistsNothing ==
    /\ failure \in {"listing", "dedup"} =>
        /\ pc = "failed"
        /\ futures = <<>>
        /\ todo = <<>>
        /\ session = EmptyBag
        /\ commits = 0
    /\ failure = "commit" => (pc = "failed" /\ commits = 1)
    /\ (pc = "failed" \/ failure # "none") => known = known0

\* The commit raised with two bids in the session: none is persisted.
C7_Witness ==
    /\ failure = "commit"
    /\ BagCardinality(session) = 2
    /\ known = known0

\* C8: idempotence. After a run that committed with no fetch error (and so
\* with every new identifier fetched and parsed), the next run against the
\* same listing resolves no new identifier, makes no task and adds no bid.
C8_SecondRunNothingNew ==
    (run >= 2 /\ last_run[1].pc = "committed" /\ last_run[1].errors = 0) =>
        /\ new_ids = {}
        /\ futures = <<>>
        /\ todo = <<>>
        /\ session = EmptyBag

\* The first run committed three bids; the second run has done its dedup
\* query and ended.
C8_Witness ==
    /\ run = 2
    /\ last_run[1].pc = "committed"
    /\ last_run[1].errors = 0
    /\ Cardinality(last_run[1].new_ids) = 3
    /\ queries = 1
    /\ pc = "committed"

\* The link targets of a listing that match the detail-link pattern, stated
\* without the loop: the literal, then at least one digit.
MatchesPattern(href) ==
    LET n == Len(RegExpLiteral)
    IN  /\ Len(href) > n
        /\ \A j \in 1..n : href[j] = RegExpLiteral[j]
        /\ href[n + 1] \in Digits

\* The numeric ID of a matching link target: the digits up to the first
\* character that is no digit.
NumericId(href) ==
    LET n == Len(RegExpLiteral)
        stop == {k \in (n + 1)..(Len(href) + 1) :
                    k = Len(href) + 1 \/ href[k] \notin Digits}
        first == CHOOSE k \in stop : \A m \in stop : k <= m
    IN  [j \in 1..(first - n - 1) |-> href[n + j]]

\* C9: scrape_results_page returns exactly the numeric IDs of the link
\* targets that match, in document order with duplicates kept; links that
\* do not match are skipped, and no match gives the empty sequence.
C9_ExtractsMatchingIds ==
    pc = "get_new_identifiers" =>
        LET hrefs == xpath_b_a_href(listing)
            matching == SelectSeq(hrefs, MatchesPattern)
        IN  /\ Len(bid_ids) = Len(matching)
            /\ \A i \in 1..Len(matching) : bid_ids[i] = NumericId(matching[i])
            /\ (matching = <<>> => bid_ids = <<>>)
            /\ (hrefs = <<Href_101, Href_202, Href_home>> =>
                    bid_ids = <<Str_101, Str_202>>)

\* The listing with bids.asp?ID=101, bids.asp?ID=202 and home.asp.
C9_Witness ==
    /\ pc = "get_new_identifiers"
    /\ listing = <<A(Href_101), A(Href_202), A(Href_home)>>
    /\ bid_ids = <<Str_101, Str_202>>

\* C10: when the dedup query answers the empty set, the run goes on to the
\* commit as a no-op: no task is made, no bid is added, no error is logged,
\* no exception leaves the harvest, and the run ends committed, with one
\* commit and the store unchanged (or failed in that one commit call
\* itself).
C10_EmptyNewIsNoOp ==
    (queries = 1 /\ failure # "dedup" /\ new_ids = {}) =>
        /\ futures = <<>>
        /\ todo = <<>>
        /\ session = EmptyBag
        /\ errors = 0
        /\ exc = "none"
        /\ failure \in {"none", "commit"}
        /\ pc = "failed" => commits = 1
        /\ pc = "committed" => (commits = 1 /\ known = known0)

\* Every candidate of the listing is known: the run ends committed.
C10_Witness ==
    /\ pc = "committed"
    /\ bid_ids # <<>>
    /\ new_ids = {}
    /\ commits = 1

\* One task per identifier, for identifiers of new_ids only; and once
\* map() has submitted them all, one task for every identifier of new_ids.
OneTaskPerNewId ==
    /\ \A i, j \in DOMAIN futures :
        futures[i].bid_id = futures[j].bid_id => i = j
    /\ FutureIds(DOMAIN futures) \subseteq new_ids
    /\ (pc \in {"as_completed", "exit", "commit", "committed"}
            \/ failure \in {"harvest", "commit"}) =>
        FutureIds(DOMAIN futures) = new_ids

\* Within a run a task is never replaced or started again: it keeps its
\* identifier, a running fetch stays running or finishes, and a finished
\* task stays as it finished.
FetchStartsOnce ==
    futures' # <<>> =>
        /\ DOMAIN futures \subseteq DOMAIN futures'
        /\ \A i \in DOMAIN futures :
            /\ futures'[i].bid_id = futures[i].bid_id
            /\ futures[i].state = "RUNNING" =>
                futures'[i].state \in {"RUNNING", "FINISHED"}
            /\ futures[i].state = "FINISHED" => futures'[i] = futures[i]

\* C11: no retry. In one run exactly one detail-fetch task is dispatched per
\* new identifier, and the fetch of a task is attempted once, whether it
\* returns or raises: no task is submitted again.
C11_NoRetry ==
    []OneTaskPerNewId /\ [][FetchStartsOnce]_vars

\* A fetch has raised and was logged, all three tasks are collected, and
\* there are still exactly three tasks.
C11_Witness ==
    /\ pc = "exit"
    /\ errors >= 1
    /\ Cardinality(new_ids) = 3
    /\ Len(futures) = 3
    /\ yielded = DOMAIN futures

\* Indices of the futures whose detail fetch returned a page.
FetchReturned == {i \in Finished : ~futures[i].raised}

\* C12: persistence is one batch at the end. session.commit() is reached,
\* and the store changes, only when every task of the run is submitted,
\* finished and collected and the bid of every fetched page is in the
\* session: no bid is persisted while a task is queued or in flight.
C12_CommitAfterHarvest ==
    (pc = "commit" \/ commits >= 1 \/ known # known0) =>
        /\ todo = <<>>
        /\ FutureIds(DOMAIN futures) = new_ids
        /\ Pending = {} /\ Running = {}
        /\ yielded = DOMAIN futures
        /\ BidIdsOf(session) = FutureIds(FetchReturned)

\* Three bids were persisted by the commit of a run.
C12_Witness ==
    /\ pc = "committed"
    /\ Len(futures) = 3
    /\ Cardinality(known \ known0) = 3

\* The threads that have called fn in this run.
CallersOf(fn) == {c.thread : c \in {d \in calls : d.fn = fn}}

SessionCalls == {"get_new_identifiers", "session.add", "session.commit"}

\* C14: the session is used on the coordinator thread only. No worker
\* thread calls the dedup query, session.add or session.commit, every query,
\* added bid and commit of the run is the coordinator's, and so no two
\* threads operate on the session at once.
C14_SessionOnCoordinatorOnly ==
    /\ \A c \in calls : c.fn \in SessionCalls => c.thread = "coordinator"
    /\ queries >= 1 <=> Call("coordinator", "get_new_identifiers") \in calls
    /\ session # EmptyBag <=> Call("coordinator", "session.add") \in calls
    /\ commits >= 1 <=> Call("coordinator", "session.commit") \in calls
    /\ Running # {} => Call("worker", "get_details_for_bid") \in calls

\* The coordinator has added a bid to the session while a worker thread is
\* inside its fetch.
C14_Witness ==
    /\ Call("coordinator", "session.add") \in calls
    /\ Call("worker", "get_details_for_bid") \in calls
    /\ Running # {}

\* What scrape_bid_page makes of the page that task i fetched.
ParseOf(i) ==
    scrape_bid_page(futures[i].result[1].page, futures[i].result[1].bid_id)

\* C15: the bids a run commits do not depend on the interleaving of the
\* worker tasks: they are a function of the outcomes of the tasks alone.
\* Whenever a run is at or past its commit, every fetched page has parsed
\* and the session holds exactly the bids of the fetched pages, whatever
\* the order of starts and completions was; a committed run has added
\* exactly their rows to the store, and a failed run has added none.
C15_CommittedSetIsOrderFree ==
    /\ (pc \in {"commit", "committed"} \/ failure = "commit") =>
        /\ Finished = DOMAIN futures
        /\ \A i \in FetchReturned : ~ParseOf(i).raised
        /\ BagToSet(session) = {ParseOf(i).value[1] : i \in FetchReturned}
        /\ BagCardinality(session) = Cardinality(FetchReturned)
    /\ pc = "committed" =>
        known = known0 \cup Rows(FutureIds(FetchReturned))
    /\ pc = "failed" => known = known0

\* A committed run of three tasks of which one fetch raised: two rows.
C15_Witness ==
    /\ pc = "committed"
    /\ Len(futures) = 3
    /\ Cardinality(FetchFailed) = 1
    /\ Cardinality(known \ known0) = 2

\* C17: process_new_bids does not return while a task it submitted is
\* queued or running: once the method is left, normally or by an
\* exception, every future is finished and nothing is left to submit. When
\* an exception leaves the method, the commit is not executed and the store
\* keeps its rows.
C17_ReturnsAfterAllTasks ==
    /\ pc \in {"commit", "committed", "failed"} =>
        /\ Pending = {}
        /\ Running = {}
        /\ todo = <<>>
    /\ failure = "harvest" =>
        /\ exc # "none"
        /\ Finished = DOMAIN futures
        /\ commits = 0
        /\ Call("coordinator", "session.commit") \notin calls
        /\ known = known0

\* The exception left the loop with futures not yet yielded; they have all
\* finished when the method is left.
C17_Witness ==
    /\ failure = "harvest"
    /\ Len(futures) = 3
    /\ Cardinality(yielded) = 1
    /\ Finished = DOMAIN futures

\* The identifiers the previous run resolved as new and did not add.
Dropped == last_run[1].new_ids \ last_run[1].added

\* The run has its answer from get_new_identifiers.
Deduped ==
    /\ pc \notin {"get_results", "scrape_results_page", "get_new_identifiers"}
    /\ failure \notin {"listing", "dedup"}

\* The run has submitted its tasks.
Submitted ==
    /\ Deduped
    /\ pc \notin {"process_new_bids", "submit"}

\* C18: an identifier dropped because its fetch failed is not recorded as
\* known, and the next run takes it up again. After a committed run, one
\* identifier was dropped per logged fetch error; none of them is a row of
\* the store the next run starts from; the next run's query answers them as
\* new, and a task is submitted for each, so the detail page is fetched
\* again.
C18_DroppedIdIsRetriedNextRun ==
    (run >= 2 /\ last_run[1].pc = "committed") =>
        /\ Cardinality(Dropped) = last_run[1].errors
        /\ Rows(Dropped) \cap known0 = {}
        /\ Rows(last_run[1].added) \subseteq known0
        /\ Deduped => Dropped \subseteq new_ids
        /\ Submitted => Dropped \subseteq FutureIds(DOMAIN futures)
        /\ pc \in {"commit", "committed"} =>
              Dropped \subseteq FutureIds(Finished)

\* The second run has fetched the page of an identifier that the first,
\* committed run dropped, and has added its bid.
C18_Witness ==
    /\ run = 2
    /\ last_run[1].pc = "committed"
    /\ last_run[1].errors = 1
    /\ pc = "committed"
    /\ \E id \in Dropped : id \in BidIdsOf(session) /\ Rows({id}) \subseteq known

\* scrape() has ended, committed or failed, and no task is queued or in
\* flight.
Ended ==
    /\ pc \in {"committed", "failed"}
    /\ todo = <<>>
    /\ Pending = {}
    /\ Running = {}

\* C16: every run terminates. When every call eventually returns or raises
\* and the threads are scheduled fairly, a run that has not ended eventually
\* ends, committed or failed, with no detail task queued or in flight, also
\* when there are more new identifiers than worker threads.
C16_EveryRunTerminates == (pc \notin {"committed", "failed"}) ~> Ended

\* A run with more tasks than worker threads has ended committed.
C16_Witness ==
    /\ Ended
    /\ pc = "committed"
    /\ Len(futures) > NUMBER_OF_THREADS
    /\ nthreads = NUMBER_OF_THREADS

====
